---- MODULE Spec2Model ----
(***************************************************************************)
(* Smart-Home-Controller (src/script.js): the device model (Device,        *)
(* SmartDevice), the DeviceController registry and its activity log.       *)
(*                                                                         *)
(* Numbers are JavaScript numbers; every value the model handles is an     *)
(* integer.  A device id is Date.now() + Math.random(): the clock reading  *)
(* in milliseconds plus a fraction.  The fraction is kept in fixed point   *)
(* with RandSteps distinguishable values per millisecond, so an id is the  *)
(* integer  now * RandSteps + fraction.                                    *)
(***************************************************************************)
EXTENDS Integers, Sequences, FiniteSets, TLC

VARIABLES
    devices,    \* DeviceController.devices: the array of SmartDevice objects
    log,        \* children of the #activityLog element, first child first
    now,        \* the wall clock in milliseconds (Date.now(), new Date())
    created,    \* history: the id of every device constructed, in order
    logged,     \* history: every entry logActivity inserted, in call order
    ret,        \* the last call made and what it returned
    grid,       \* the device cards renderDevices put into #devicesGrid
    readyState  \* document.readyState: "loading" until DOMContentLoaded

\* what the page shows
page == <<grid, readyState>>

vars == <<devices, log, now, created, logged, ret, grid, readyState>>

----------------------------------------------------------------------------
(* Bounds of the model *)

MaxCreated == 1     \* devices constructed in one run of Spec
MaxRegistry == 3    \* devices constructed in one run of SpecRegistry
StartNow == 999     \* clock reading when the page is loaded
MaxNow == 1000      \* last clock reading of a run
RandSteps == 2      \* distinguishable values of Math.random() in an id
MaxLogCalls == 52   \* logActivity calls in one run of the log driver
MaxPair == 2        \* devices constructed in one run of SpecPair
MaxLogged == 7      \* entries logged in one run of SpecUser, SpecHandlers

(* Program constants *)

LogCap == 50            \* script.js:205
MsPerSecond == 1000     \* resolution of toLocaleTimeString, script.js:194

(* Inputs *)

DeviceTypes == {"light", "fan", "ac", "thermostat", "security", "other"}
Connectivities == {"online", "offline"}
Names == {"Hall"}
RequestedValues == {-1, 4, 20, 150}

----------------------------------------------------------------------------
(* Device and SmartDevice *)

\* Math.max / Math.min on integers
MathMax(a, b) == IF a >= b THEN a ELSE b
MathMin(a, b) == IF a <= b THEN a ELSE b

\* DefaultParam with the thermostat's default copied from the ac case
DefaultParamCopied(type) ==
    CASE type = "light" ->
            [name |-> "Brightness", value |-> 50, min |-> 0, max |-> 100]
      [] type = "fan" ->
            [name |-> "Speed", value |-> 3, min |-> 0, max |-> 5]
      [] type \in {"ac", "thermostat"} ->
            [name |-> "Temperature", value |-> 24, min |-> 16, max |-> 30]
      [] OTHER ->
            [name |-> "Level", value |-> 50, min |-> 0, max |-> 100]

\* the switch of addDevice: the adjustable parameter of a device type
DefaultParam(type) ==
    CASE type = "light" ->
            [name |-> "Brightness", value |-> 50, min |-> 0, max |-> 100]
      [] type = "fan" ->
            [name |-> "Speed", value |-> 3, min |-> 0, max |-> 5]
      [] type = "ac" ->
            [name |-> "Temperature", value |-> 24, min |-> 16, max |-> 30]
      [] type = "thermostat" ->
            [name |-> "Temperature", value |-> 22, min |-> 16, max |-> 30]
      [] OTHER ->
            [name |-> "Level", value |-> 50, min |-> 0, max |-> 100]

\* HasAdjustable true of every type but security
HasAdjustableExceptSecurity(type) == type # "security"

\* const hasAdjustable = [...].includes(type)
HasAdjustable(type) == type \in {"light", "fan", "ac", "thermostat"}

\* Device.constructor: this.id = Date.now() + Math.random()
NewId(t, r) == t * RandSteps + r

\* new SmartDevice(name, type, hasAdjustable, adjustableParam)
SmartDevice(name, type, hasAdjustable, adjustableParam, id) ==
    [ name |-> name,
      type |-> type,
      powerState |-> FALSE,
      connectivity |-> "online",
      id |-> id,
      hasAdjustable |-> hasAdjustable,
      adjustableParam |-> adjustableParam ]

\* Device.setConnectivity
setConnectivity(d, status) == [d EXCEPT !.connectivity = status]

\* togglePowerDevice without the offline check
togglePowerDeviceAlways(d) == [d EXCEPT !.powerState = ~d.powerState]

\* togglePowerDevice that also reconnects the device
togglePowerDeviceReconnect(d) ==
    [d EXCEPT !.powerState = ~d.powerState, !.connectivity = "online"]

\* togglePowerDevice that only ever turns the device on
togglePowerDeviceOn(d) ==
    IF d.connectivity = "offline"
    THEN d
    ELSE [d EXCEPT !.powerState = TRUE]

\* togglePowerDevice that puts the value back to min when turning off
togglePowerDeviceReset(d) ==
    IF d.connectivity = "offline"
    THEN d
    ELSE IF d.powerState
    THEN [d EXCEPT !.powerState = FALSE, !.adjustableParam.value = d.adjustableParam.min]
    ELSE [d EXCEPT !.powerState = TRUE]

\* Device.togglePower (SmartDevice.togglePower returns super's result):
\* the device afterwards and the outcome
togglePowerDevice(d) ==
    IF d.connectivity = "offline"
    THEN d
    ELSE [d EXCEPT !.powerState = ~d.powerState]

\* togglePowerResult naming the state before the flip
togglePowerResultStale(d) ==
    IF d.connectivity = "offline"
    THEN [success |-> FALSE, message |-> <<"Device is offline">>]
    ELSE [success |-> TRUE,
          message |-> <<"Device turned", IF d.powerState THEN "ON" ELSE "OFF">>]

togglePowerResult(d) ==
    IF d.connectivity = "offline"
    THEN [success |-> FALSE, message |-> <<"Device is offline">>]
    ELSE [success |-> TRUE,
          message |-> <<"Device turned",
                        IF togglePowerDevice(d).powerState THEN "ON" ELSE "OFF">>]

\* clampedValue without the upper limit
clampedValueNoMax(d, value) == MathMax(d.adjustableParam.min, value)

\* const clampedValue = Math.max(min, Math.min(max, value))
clampedValue(d, value) ==
    MathMax(d.adjustableParam.min, MathMin(d.adjustableParam.max, value))

\* SmartDevice.updateAdjustable: the device afterwards and the outcome
updateAdjustableDevice(d, value) ==
    IF d.connectivity = "offline"
    THEN d
    ELSE [d EXCEPT !.adjustableParam.value = clampedValue(d, value)]

\* updateAdjustableResult reporting the requested value
updateAdjustableResultRaw(d, value) ==
    IF d.connectivity = "offline"
    THEN [success |-> FALSE, message |-> <<"Device is offline">>]
    ELSE [success |-> TRUE,
          message |-> <<d.adjustableParam.name, "set to", value>>]

updateAdjustableResult(d, value) ==
    IF d.connectivity = "offline"
    THEN [success |-> FALSE, message |-> <<"Device is offline">>]
    ELSE [success |-> TRUE,
          message |-> <<d.adjustableParam.name, "set to", clampedValue(d, value)>>]

\* getStatus reading the power off the connectivity
getStatusOfConnectivity(d) ==
    [ name |-> d.name,
      type |-> d.type,
      power |-> IF d.connectivity = "online" THEN "ON" ELSE "OFF",
      connectivity |-> d.connectivity ]

\* Device.getStatus
getStatus(d) ==
    [ name |-> d.name,
      type |-> d.type,
      power |-> IF d.powerState THEN "ON" ELSE "OFF",
      connectivity |-> d.connectivity ]

----------------------------------------------------------------------------
(* DeviceController *)

\* new Date().toLocaleTimeString(): the time of day, to the second
toLocaleTimeString(t) == t \div MsPerSecond

\* the <div class="log-entry"> built by logActivity
LogEntry(t, message) == [timestamp |-> toLocaleTimeString(t), message |-> message]

\* TrimLog removing the first child
RECURSIVE TrimLogFirst(_)
TrimLogFirst(children) ==
    IF Len(children) > LogCap
    THEN TrimLogFirst(SubSeq(children, 2, Len(children)))
    ELSE children

\* while (children.length > 50) removeChild(lastChild)
RECURSIVE TrimLog(_)
TrimLog(children) ==
    IF Len(children) > LogCap
    THEN TrimLog(SubSeq(children, 1, Len(children) - 1))
    ELSE children

\* logActivity with appendChild in place of insertBefore: newest entry last
logActivityLast(children, t, message) ==
    TrimLog(children \o <<LogEntry(t, message)>>)

\* DeviceController.logActivity: the children of #activityLog afterwards
logActivity(children, t, message) ==
    TrimLog(<<LogEntry(t, message)>> \o children)

\* this.devices.findIndex((d) => d.id === parsedId); 0 stands for -1
RECURSIVE FindFrom(_, _, _)
FindFrom(ds, id, i) ==
    IF i > Len(ds) THEN 0
    ELSE IF ds[i].id = id THEN i
    ELSE FindFrom(ds, id, i + 1)

findIndex(ds, id) == FindFrom(ds, id, 1)

\* this.devices.splice(index, 1)
splice(ds, index) == SubSeq(ds, 1, index - 1) \o SubSeq(ds, index + 1, Len(ds))

\* DeviceController.getDevice; Undefined is what Array.find gives on no match
Undefined == [undefined |-> TRUE]

getDevice(ds, id) ==
    IF findIndex(ds, id) = 0 THEN Undefined ELSE ds[findIndex(ds, id)]

\* DeviceController.getAllDevices
getAllDevices == devices

----------------------------------------------------------------------------
(* Text: numbers in template literals and back.  A text is a sequence of    *)
(* characters.  An id reads "<milliseconds>" or "<milliseconds>.<fraction>", *)
(* the fraction being the one of the RandSteps fractions it stands for.     *)

DigitChars == <<"0", "1", "2", "3", "4", "5", "6", "7", "8", "9">>

IsDigit(c) == \E k \in 1..Len(DigitChars) : DigitChars[k] = c

DigitValue(c) == (CHOOSE k \in 1..Len(DigitChars) : DigitChars[k] = c) - 1

\* Number::toString of a natural number
RECURSIVE NatToString(_)
NatToString(n) ==
    IF n < Len(DigitChars)
    THEN <<DigitChars[n + 1]>>
    ELSE NatToString(n \div Len(DigitChars)) \o <<DigitChars[(n % Len(DigitChars)) + 1]>>

\* `${value}` of an integer
IntToString(v) == IF v < 0 THEN <<"-">> \o NatToString(0 - v) ELSE NatToString(v)

\* `${device.id}`
IdToString(id) ==
    IF id % RandSteps = 0
    THEN NatToString(id \div RandSteps)
    ELSE NatToString(id \div RandSteps) \o <<".">> \o NatToString(id % RandSteps)

\* the number of digits of text from position i on
RECURSIVE DigitRun(_, _)
DigitRun(text, i) ==
    IF i > Len(text) THEN 0
    ELSE IF IsDigit(text[i]) THEN 1 + DigitRun(text, i + 1)
    ELSE 0

\* the natural number written by the n digits of text from position i on
RECURSIVE NatOf(_, _, _)
NatOf(text, i, n) ==
    IF n = 0 THEN 0
    ELSE NatOf(text, i, n - 1) * Len(DigitChars) + DigitValue(text[i + n - 1])

\* NaN: a number equal to no id and to no requested value
NaN == -1000000

\* parseFloat: the number written by the longest numeric prefix of the text,
\* NaN with no such prefix (signs, exponents and blanks are not among the
\* texts of the model, nor fractions that are none of the RandSteps)
parseFloat(text) ==
    LET n == DigitRun(text, 1)
        m == IF n > 0 /\ Len(text) > n /\ text[n + 1] = "."
             THEN DigitRun(text, n + 2)
             ELSE 0
    IN IF n = 0 THEN NaN
       ELSE IF m = 0 THEN NatOf(text, 1, n) * RandSteps
       ELSE IF NatOf(text, n + 2, m) < RandSteps
       THEN NatOf(text, 1, n) * RandSteps + NatOf(text, n + 2, m)
       ELSE NaN

\* parseInt: the integer written by the longest prefix of sign and digits
parseInt(text) ==
    LET negative == Len(text) > 0 /\ text[1] = "-"
        start == IF negative THEN 2 ELSE 1
        n == DigitRun(text, start)
    IN IF n = 0 THEN NaN
       ELSE IF negative THEN 0 - NatOf(text, start, n)
       ELSE NatOf(text, start, n)

----------------------------------------------------------------------------
(* The page: the device cards of #devicesGrid *)

\* param.name === "Temperature" ? "°C" : ""
Unit(param) == IF param.name = "Temperature" THEN <<"°", "C">> ELSE <<>>

\* Card with a slider that is never disabled
CardEnabled(device) ==
    LET status == getStatus(device)
        param == device.adjustableParam
        adjustable == device.hasAdjustable /\ device.connectivity = "online"
    IN [ id |-> IdToString(device.id),
         type |-> status.type,
         name |-> status.name,
         status |-> IF device.connectivity = "offline" THEN "OFFLINE" ELSE status.power,
         toggleDisabled |-> device.connectivity = "offline",
         slider |-> IF ~adjustable THEN "none" ELSE "enabled",
         label |-> IF adjustable THEN param.name ELSE "",
         min |-> IF adjustable THEN IntToString(param.min) ELSE <<>>,
         max |-> IF adjustable THEN IntToString(param.max) ELSE <<>>,
         value |-> IF adjustable THEN IntToString(param.value) ELSE <<>>,
         shown |-> IF adjustable THEN IntToString(param.value) \o Unit(param) ELSE <<>> ]

\* the <div class="device-card"> renderDevices builds for a device: the texts
\* in it, the state of the toggle button, and the slider with its value span
\* (id is the text in onclick / onchange and in the span's id "value-<id>")
Card(device) ==
    LET status == getStatus(device)
        param == device.adjustableParam
        adjustable == device.hasAdjustable /\ device.connectivity = "online"
    IN [ id |-> IdToString(device.id),
         type |-> status.type,
         name |-> status.name,
         status |-> IF device.connectivity = "offline" THEN "OFFLINE" ELSE status.power,
         toggleDisabled |-> device.connectivity = "offline",
         slider |-> IF ~adjustable THEN "none"
                    ELSE IF ~device.powerState THEN "disabled"
                    ELSE "enabled",
         label |-> IF adjustable THEN param.name ELSE "",
         min |-> IF adjustable THEN IntToString(param.min) ELSE <<>>,
         max |-> IF adjustable THEN IntToString(param.max) ELSE <<>>,
         value |-> IF adjustable THEN IntToString(param.value) ELSE <<>>,
         shown |-> IF adjustable THEN IntToString(param.value) \o Unit(param) ELSE <<>> ]

\* renderDevices: the cards of the grid, one per device, in registry order
\* (no card: the empty-state notice)
renderDevices(ds) == [k \in 1..Len(ds) |-> Card(ds[k])]

\* document.getElementById(`value-${deviceId}`): the first card whose value
\* span has that id; 0 stands for null
RECURSIVE SpanFrom(_, _, _)
SpanFrom(cards, text, k) ==
    IF k > Len(cards) THEN 0
    ELSE IF cards[k].slider # "none" /\ cards[k].id = text THEN k
    ELSE SpanFrom(cards, text, k + 1)

getElementById(cards, text) == SpanFrom(cards, text, 1)

\* String.prototype.trim on the names typed into the form: of those, the
\* blank one alone has blanks to strip
trim(name) == IF name = " " THEN "" ELSE name

----------------------------------------------------------------------------
(* Operations *)

Init ==
    /\ devices = <<>>
    /\ log = <<>>
    /\ now = StartNow
    /\ created = <<>>
    /\ logged = <<>>
    /\ ret = [op |-> "none"]
    /\ grid = <<>>
    /\ readyState = "loading"

\* a millisecond passes between two calls
Tick ==
    /\ now < MaxNow
    /\ now' = now + 1
    /\ ret' = [op |-> "tick"]
    /\ UNCHANGED <<devices, log, created, logged, page>>

\* AddDevice with unshift in place of push: the new device comes first
AddDeviceFront(name, type, connectivity, r) ==
    LET device == setConnectivity(
                      SmartDevice(name, type, HasAdjustable(type),
                                  DefaultParam(type), NewId(now, r)),
                      connectivity)
        message == <<"Added new", type, name, connectivity>>
    IN /\ devices' = <<device>> \o devices
       /\ created' = Append(created, device.id)
       /\ log' = logActivity(log, now, message)
       /\ logged' = Append(logged, LogEntry(now, message))
       /\ ret' = [op |-> "addDevice", name |-> name, type |-> type,
                  connectivity |-> connectivity, device |-> device]
       /\ UNCHANGED <<now, page>>

\* controller.addDevice(name, type, connectivity); r is Math.random()
AddDevice(name, type, connectivity, r) ==
    LET device == setConnectivity(
                      SmartDevice(name, type, HasAdjustable(type),
                                  DefaultParam(type), NewId(now, r)),
                      connectivity)
        message == <<"Added new", type, name, connectivity>>
    IN /\ devices' = Append(devices, device)
       /\ created' = Append(created, device.id)
       /\ log' = logActivity(log, now, message)
       /\ logged' = Append(logged, LogEntry(now, message))
       /\ ret' = [op |-> "addDevice", name |-> name, type |-> type,
                  connectivity |-> connectivity, device |-> device]
       /\ UNCHANGED <<now, page>>

\* RemoveDevice without the index !== -1 test: splice(-1, 1) drops the last
RemoveDeviceUnchecked(deviceId) ==
    LET found == findIndex(devices, deviceId)
        index == IF found # 0 THEN found ELSE Len(devices)
    IN /\ devices # <<>>
       /\ LET message == <<"Removed device", devices[index].name>>
          IN /\ devices' = splice(devices, index)
             /\ log' = logActivity(log, now, message)
             /\ logged' = Append(logged, LogEntry(now, message))
             /\ ret' = [op |-> "removeDevice", id |-> deviceId, result |-> TRUE]
             /\ UNCHANGED <<now, created, page>>

\* controller.removeDevice(deviceId) with a numeric deviceId
RemoveDevice(deviceId) ==
    LET index == findIndex(devices, deviceId)
    IN IF index # 0
       THEN LET message == <<"Removed device", devices[index].name>>
            IN /\ devices' = splice(devices, index)
               /\ log' = logActivity(log, now, message)
               /\ logged' = Append(logged, LogEntry(now, message))
               /\ ret' = [op |-> "removeDevice", id |-> deviceId, result |-> TRUE]
               /\ UNCHANGED <<now, created, page>>
       ELSE /\ ret' = [op |-> "removeDevice", id |-> deviceId, result |-> FALSE]
            /\ UNCHANGED <<devices, log, now, created, logged, page>>

\* controller.getDevice(deviceId) with a numeric deviceId
GetDevice(deviceId) ==
    /\ ret' = [op |-> "getDevice", id |-> deviceId,
               device |-> getDevice(devices, deviceId)]
    /\ UNCHANGED <<devices, log, now, created, logged, page>>

\* controller.getAllDevices()
GetAllDevices ==
    /\ ret' = [op |-> "getAllDevices", devices |-> getAllDevices]
    /\ UNCHANGED <<devices, log, now, created, logged, page>>

\* device.getStatus() on the i-th device of the registry
GetStatus(i) ==
    /\ ret' = [op |-> "getStatus", index |-> i, status |-> getStatus(devices[i])]
    /\ UNCHANGED <<devices, log, now, created, logged, page>>

\* controller.removeDevice(deviceId) with a text: typeof deviceId === "string"
RemoveDeviceText(text) ==
    LET parsedId == parseFloat(text)
        index == findIndex(devices, parsedId)
    IN IF index # 0
       THEN LET message == <<"Removed device", devices[index].name>>
            IN /\ devices' = splice(devices, index)
               /\ log' = logActivity(log, now, message)
               /\ logged' = Append(logged, LogEntry(now, message))
               /\ ret' = [op |-> "removeDevice", id |-> parsedId, text |-> text,
                          index |-> index, result |-> TRUE]
               /\ UNCHANGED <<now, created, page>>
       ELSE /\ ret' = [op |-> "removeDevice", id |-> parsedId, text |-> text,
                       index |-> index, result |-> FALSE]
            /\ UNCHANGED <<devices, log, now, created, logged, page>>

\* controller.getDevice(deviceId) with a text: typeof deviceId === "string"
GetDeviceText(text) ==
    LET parsedId == parseFloat(text)
    IN /\ ret' = [op |-> "getDevice", id |-> parsedId, text |-> text,
                  index |-> findIndex(devices, parsedId),
                  device |-> getDevice(devices, parsedId)]
       /\ UNCHANGED <<devices, log, now, created, logged, page>>

\* UpdateAdjustable with one parameter record per type: the value lands in
\* every device of the type
UpdateAdjustableShared(i, value) ==
    /\ devices' = [j \in 1..Len(devices) |->
                      IF devices[j].type = devices[i].type
                         /\ devices[i].connectivity = "online"
                      THEN [devices[j] EXCEPT !.adjustableParam.value =
                                                  clampedValue(devices[i], value)]
                      ELSE devices[j]]
    /\ ret' = [op |-> "updateAdjustable", index |-> i, value |-> value]
                  @@ updateAdjustableResult(devices[i], value)
    /\ UNCHANGED <<log, now, created, logged, page>>

\* device.togglePower() on the i-th device of the registry
TogglePower(i) ==
    /\ devices' = [devices EXCEPT ![i] = togglePowerDevice(devices[i])]
    /\ ret' = [op |-> "togglePower", index |-> i,
                  before |-> devices[i].powerState]
                  @@ togglePowerResult(devices[i])
    /\ UNCHANGED <<log, now, created, logged, page>>

\* device.updateAdjustable(value) on the i-th device of the registry
UpdateAdjustable(i, value) ==
    /\ devices' = [devices EXCEPT ![i] = updateAdjustableDevice(devices[i], value)]
    /\ ret' = [op |-> "updateAdjustable", index |-> i, value |-> value]
                  @@ updateAdjustableResult(devices[i], value)
    /\ UNCHANGED <<log, now, created, logged, page>>

\* device.setConnectivity(status) on the i-th device of the registry
SetConnectivity(i, status) ==
    /\ devices' = [devices EXCEPT ![i] = setConnectivity(devices[i], status)]
    /\ ret' = [op |-> "setConnectivity", index |-> i, status |-> status]
    /\ UNCHANGED <<log, now, created, logged, page>>

\* controller.logActivity(message)
LogActivity(message) ==
    /\ log' = logActivity(log, now, message)
    /\ logged' = Append(logged, LogEntry(now, message))
    /\ ret' = [op |-> "logActivity"]
    /\ UNCHANGED <<devices, now, created, page>>

\* the submit listener of #addDeviceForm; name, type and connectivity are the
\* values of the three form fields, r is Math.random()
SubmitForm(name, type, connectivity, r) ==
    IF trim(name) = ""
    THEN /\ ret' = [op |-> "submit", added |-> FALSE]
         /\ UNCHANGED <<devices, log, now, created, logged, page>>
    ELSE LET device == setConnectivity(
                           SmartDevice(trim(name), type, HasAdjustable(type),
                                       DefaultParam(type), NewId(now, r)),
                           connectivity)
             message == <<"Added new", type, trim(name), connectivity>>
         IN /\ devices' = Append(devices, device)
            /\ created' = Append(created, device.id)
            /\ log' = logActivity(log, now, message)
            /\ logged' = Append(logged, LogEntry(now, message))
            /\ grid' = renderDevices(devices')
            /\ ret' = [op |-> "submit", added |-> TRUE, device |-> device]
            /\ UNCHANGED <<now, readyState>>

\* toggleDevice(deviceId), the onclick of a card's toggle button; deviceId is
\* a text
ToggleDevice(deviceId) ==
    LET index == findIndex(devices, parseFloat(deviceId))
    IN IF index = 0
       THEN /\ ret' = [op |-> "toggleDevice", text |-> deviceId, index |-> 0]
            /\ UNCHANGED <<devices, log, now, created, logged, page>>
       ELSE LET device == devices[index]
                result == togglePowerResult(device)
                after == togglePowerDevice(device)
                message == IF result.success
                           THEN <<IF after.powerState THEN "green" ELSE "red",
                                  device.name>> \o result.message
                           ELSE <<"failed", device.name>> \o result.message
            IN /\ devices' = [devices EXCEPT ![index] = after]
               /\ log' = logActivity(log, now, message)
               /\ logged' = Append(logged, LogEntry(now, message))
               /\ grid' = IF result.success THEN renderDevices(devices') ELSE grid
               /\ ret' = [op |-> "toggleDevice", text |-> deviceId, index |-> index]
                             @@ result
               /\ UNCHANGED <<now, created, readyState>>

\* updateAdjustable(deviceId, value) run on a grid of cards; deviceId and value
\* are texts.  With no value span of that id, getElementById gives null and
\* the assignment to its textContent throws a TypeError: the device keeps the
\* new value, nothing is shown and nothing is logged.
UpdateAdjustableOn(cards, deviceId, value) ==
    LET index == findIndex(devices, parseFloat(deviceId))
    IN IF index = 0
       THEN /\ ret' = [op |-> "updateAdjustableHandler", text |-> deviceId,
                       value |-> value, index |-> 0]
            /\ grid' = cards
            /\ UNCHANGED <<devices, log, now, created, logged, readyState>>
       ELSE LET device == devices[index]
                result == updateAdjustableResult(device, parseInt(value))
                after == updateAdjustableDevice(device, parseInt(value))
                span == getElementById(cards, deviceId)
                message == <<"adjusted", device.name>> \o result.message
                call == [op |-> "updateAdjustableHandler", text |-> deviceId,
                         value |-> value, index |-> index]
            IN /\ devices' = [devices EXCEPT ![index] = after]
               /\ IF result.success /\ span # 0
                  THEN /\ grid' = [cards EXCEPT ![span].shown =
                                                    value \o Unit(after.adjustableParam)]
                       /\ log' = logActivity(log, now, message)
                       /\ logged' = Append(logged, LogEntry(now, message))
                       /\ ret' = call @@ [span |-> span, threw |-> FALSE] @@ result
                  ELSE /\ grid' = cards
                       /\ ret' = call @@ [span |-> span, threw |-> result.success]
                                      @@ result
                       /\ UNCHANGED <<log, logged>>
               /\ UNCHANGED <<now, created, readyState>>

\* updateAdjustable(deviceId, value), the onchange of a card's slider
UpdateAdjustableHandler(deviceId, value) == UpdateAdjustableOn(grid, deviceId, value)

\* updateSliderDisplay(deviceId, value), the oninput of a card's slider: the
\* cards afterwards (with no value span of that id the handler throws and the
\* cards stay as they are)
updateSliderDisplay(cards, deviceId, value) ==
    LET index == findIndex(devices, parseFloat(deviceId))
        span == getElementById(cards, deviceId)
    IN IF index # 0 /\ span # 0
       THEN [cards EXCEPT ![span].shown =
                              value \o Unit(devices[index].adjustableParam)]
       ELSE cards

\* deleteDevice(deviceId), the onclick of a card's delete button; confirmed is
\* the answer to confirm()
DeleteDevice(deviceId, confirmed) ==
    LET index == findIndex(devices, parseFloat(deviceId))
        call == [op |-> "deleteDevice", text |-> deviceId, index |-> index,
                 confirmed |-> confirmed]
    IN IF index # 0 /\ confirmed
       THEN LET message == <<"Removed device", devices[index].name>>
            IN /\ devices' = splice(devices, index)
               /\ log' = logActivity(log, now, message)
               /\ logged' = Append(logged, LogEntry(now, message))
               /\ grid' = renderDevices(devices')
               /\ ret' = call @@ [removed |-> TRUE]
               /\ UNCHANGED <<now, created, readyState>>
       ELSE /\ ret' = call @@ [removed |-> FALSE]
            /\ UNCHANGED <<devices, log, now, created, logged, page>>

\* SampleDevices with the thermostat online
SampleDevicesOnline ==
    << <<"Living Room Light", "light", "online">>,
       <<"Bedroom Fan", "fan", "online">>,
       <<"Main AC", "ac", "online">>,
       <<"Main Thermostat", "thermostat", "online">> >>

\* the addDevice calls of the DOMContentLoaded listener
SampleDevices ==
    << <<"Living Room Light", "light", "online">>,
       <<"Bedroom Fan", "fan", "online">>,
       <<"Main AC", "ac", "online">>,
       <<"Main Thermostat", "thermostat", "offline">> >>

\* the DOMContentLoaded listener: the sample devices are added within one
\* clock reading, rs[k] being the Math.random() of the k-th
PageLoad(rs) ==
    LET sample(k) == setConnectivity(
                         SmartDevice(SampleDevices[k][1], SampleDevices[k][2],
                                     HasAdjustable(SampleDevices[k][2]),
                                     DefaultParam(SampleDevices[k][2]),
                                     NewId(now, rs[k])),
                         SampleDevices[k][3])
        added(k) == LogEntry(now, <<"Added new", SampleDevices[k][2],
                                    SampleDevices[k][1], SampleDevices[k][3]>>)
        started == <<"System initialized successfully">>
        samples == [k \in 1..Len(SampleDevices) |-> sample(k)]
        entries == [k \in 1..Len(SampleDevices) |-> added(k)]
        Insert[k \in 0..Len(SampleDevices)] ==
            IF k = 0 THEN log
            ELSE logActivity(Insert[k - 1], now, entries[k].message)
    IN /\ readyState = "loading"
       /\ devices' = devices \o samples
       /\ created' = created \o [k \in 1..Len(samples) |-> samples[k].id]
       /\ grid' = renderDevices(devices')
       /\ log' = logActivity(Insert[Len(SampleDevices)], now, started)
       /\ logged' = (logged \o entries) \o <<LogEntry(now, started)>>
       /\ readyState' = "interactive"
       /\ ret' = [op |-> "DOMContentLoaded"]
       /\ UNCHANGED now

\* the user clicks the toggle button of the k-th card
ClickToggle(k) ==
    /\ ~grid[k].toggleDisabled
    /\ ToggleDevice(grid[k].id)

\* the user moves the slider of the k-th card to value: the input event, then
\* the change event
ChangeSlider(k, value) ==
    /\ grid[k].slider = "enabled"
    /\ UpdateAdjustableOn(
           updateSliderDisplay([grid EXCEPT ![k].value = value], grid[k].id, value),
           grid[k].id, value)

\* the user clicks the delete button of the k-th card and answers the prompt
ClickDelete(k, confirmed) == DeleteDevice(grid[k].id, confirmed)

\* the positions a card's slider can be moved to: the integers of its range
\* among the requested values, and the two ends
SliderValues(card) ==
    {IntToString(v) : v \in {w \in RequestedValues \cup {parseInt(card.min), parseInt(card.max)} :
                                parseInt(card.min) <= w /\ w <= parseInt(card.max)}}

\* ids a caller may pass: those ever assigned, and one never assigned
KnownIds == {created[k] : k \in 1..Len(created)} \cup {0}

Randoms == 0..(RandSteps - 1)

\* texts a caller may pass for an id: the text of every id ever assigned and
\* of one never assigned, a text that is no number, and the empty text
IdTexts == {IdToString(id) : id \in KnownIds} \cup {<<"a", "b", "c">>, <<>>}

----------------------------------------------------------------------------
(* Spec: one registry, every device type and requested value, the clock     *)
(* running                                                                  *)

Next ==
    \/ Tick
    \/ /\ Len(created) < MaxCreated
       /\ \E name \in Names, type \in DeviceTypes, c \in Connectivities, r \in Randoms :
            AddDevice(name, type, c, r)
    \/ \E id \in KnownIds : RemoveDevice(id)
    \/ \E id \in KnownIds : GetDevice(id)
    \/ \E i \in 1..Len(devices) : TogglePower(i)
    \/ \E i \in 1..Len(devices), v \in RequestedValues : UpdateAdjustable(i, v)

Spec == Init /\ [][Next]_vars

(* SpecRegistry: several devices of one type created within one            *)
(* millisecond                                                              *)

RegistryNext ==
    \/ /\ Len(created) < MaxRegistry
       /\ \E name \in Names, c \in Connectivities, r \in Randoms :
            AddDevice(name, "fan", c, r)
    \/ \E id \in KnownIds : RemoveDevice(id)
    \/ \E id \in KnownIds : GetDevice(id)
    \/ \E i \in 1..Len(devices) : TogglePower(i)

SpecRegistry == Init /\ [][RegistryNext]_vars

(* SpecPair: online devices of one type side by side, ids passed as text *)

PairValues == {4, 150}

PairNext ==
    \/ /\ Len(created) < MaxPair
       /\ \E name \in Names, r \in Randoms : AddDevice(name, "fan", "online", r)
    \/ \E text \in IdTexts : RemoveDeviceText(text)
    \/ \E text \in IdTexts : GetDeviceText(text)
    \/ GetAllDevices
    \/ \E i \in 1..Len(devices) : GetStatus(i)
    \/ \E i \in 1..Len(devices) : TogglePower(i)
    \/ \E i \in 1..Len(devices), v \in PairValues : UpdateAdjustable(i, v)

SpecPair == Init /\ [][PairNext]_vars

(* SpecUser: the page in the hands of a user, who works the controls the    *)
(* cards and the form offer                                                 *)

\* the fractions Math.random() gives while the page loads: two, so that
\* sample devices come with the same id and with different ones
PageRandoms == {0, 1}

FormNames == {"Hall", " "}
FormTypes == {"light", "security"}

UserNext ==
    \/ \E rs \in [1..Len(SampleDevices) -> PageRandoms] : PageLoad(rs)
    \/ /\ readyState # "loading"
       /\ Len(logged) < MaxLogged
       /\ \/ \E name \in FormNames, type \in FormTypes, c \in Connectivities,
                r \in Randoms : SubmitForm(name, type, c, r)
          \/ \E k \in 1..Len(grid) : ClickToggle(k)
          \/ \E k \in 1..Len(grid) : \E v \in SliderValues(grid[k]) : ChangeSlider(k, v)
          \/ \E k \in 1..Len(grid), confirmed \in BOOLEAN : ClickDelete(k, confirmed)

SpecUser == Init /\ [][UserNext]_vars

(* SpecHandlers: the loaded page with its handlers called on any id and     *)
(* value text                                                               *)

ValueTexts == {IntToString(v) : v \in PairValues}

\* the id texts the handlers are called with: that of every device of the
\* registry, and one that is no number
HandlerTexts == {IdToString(devices[k].id) : k \in 1..Len(devices)} \cup {<<"a", "b", "c">>}

HandlersNext ==
    \/ \E rs \in [1..Len(SampleDevices) -> PageRandoms] : PageLoad(rs)
    \/ /\ readyState # "loading"
       /\ Len(logged) < MaxLogged
       /\ \/ \E text \in HandlerTexts : ToggleDevice(text)
          \/ \E text \in HandlerTexts, value \in ValueTexts :
                UpdateAdjustableHandler(text, value)
          \/ \E text \in HandlerTexts : DeleteDevice(text, TRUE)

SpecHandlers == Init /\ [][HandlersNext]_vars

(* SpecConnectivity: the device methods called directly, setConnectivity    *)
(* among them                                                               *)

ConnectivityTypes == {"fan", "security"}

ConnectivityNext ==
    \/ /\ Len(created) < MaxCreated
       /\ \E name \in Names, type \in ConnectivityTypes, c \in Connectivities,
             r \in Randoms :
            AddDevice(name, type, c, r)
    \/ \E id \in KnownIds : RemoveDevice(id)
    \/ \E i \in 1..Len(devices) : TogglePower(i)
    \/ \E i \in 1..Len(devices), v \in RequestedValues : UpdateAdjustable(i, v)
    \/ \E i \in 1..Len(devices), s \in Connectivities : SetConnectivity(i, s)

SpecConnectivity == Init /\ [][ConnectivityNext]_vars

(* SpecLog: the activity log on its own, a run of numbered notes *)

LogNext ==
    \/ Tick
    \/ /\ Len(logged) < MaxLogCalls
       /\ LogActivity(<<"note", Len(logged) + 1>>)

SpecLog == Init /\ [][LogNext]_vars

----------------------------------------------------------------------------
(* Claims *)

\* the device a togglePower / updateAdjustable / setConnectivity call is made on
Target == devices[ret'.index]
TargetAfter == devices'[ret'.index]

\* clamp of the specification: min below the range, max above it, v inside
Clamp(v, min, max) == IF v < min THEN min ELSE IF v > max THEN max ELSE v

\* the table of section 4.2: type -> <<label, default, min, max>>
ParamTable(type) ==
    CASE type = "light" -> <<"Brightness", 50, 0, 100>>
      [] type = "fan" -> <<"Speed", 3, 0, 5>>
      [] type = "ac" -> <<"Temperature", 24, 16, 30>>
      [] type = "thermostat" -> <<"Temperature", 22, 16, 30>>
      [] OTHER -> <<"Level", 50, 0, 100>>

\* a sequence without its k-th element
Without(seq, k) == [j \in 1..(Len(seq) - 1) |-> IF j < k THEN seq[j] ELSE seq[j + 1]]

Connectivity(ds) == [k \in 1..Len(ds) |-> ds[k].connectivity]

Min(a, b) == IF a <= b THEN a ELSE b

C2_OfflineRejected ==
    [][ (/\ ret'.op \in {"togglePower", "updateAdjustable"}
         /\ Target.connectivity = "offline")
        => /\ ret'.success = FALSE
           /\ TargetAfter.powerState = Target.powerState
           /\ TargetAfter.adjustableParam.value = Target.adjustableParam.value ]_vars

\* a powered device that went offline has just rejected an update
C2_Witness ==
    /\ ret.op = "updateAdjustable"
    /\ ret.success = FALSE
    /\ devices[ret.index].powerState
    /\ devices[ret.index].adjustableParam.value
           # DefaultParam(devices[ret.index].type).value

\* C3: updateAdjustable(v) on an online device succeeds, stores
\* clamp(v, min, max), and its message names the parameter and the stored value.
C3_ClampStored ==
    [][ (/\ ret'.op = "updateAdjustable"
         /\ Target.connectivity = "online")
        => /\ ret'.success
           /\ TargetAfter.adjustableParam.value
                  = Clamp(ret'.value, Target.adjustableParam.min,
                          Target.adjustableParam.max)
           /\ ret'.message = << Target.adjustableParam.name, "set to",
                                TargetAfter.adjustableParam.value >> ]_vars

\* updateAdjustable(150) on a light has stored and reported 100
C3_Witness ==
    /\ ret.op = "updateAdjustable"
    /\ ret.value = 150
    /\ devices[ret.index].type = "light"
    /\ devices[ret.index].adjustableParam.value = 100
    /\ ret.message = <<"Brightness", "set to", 100>>

\* C4: addDevice gives the device the adjustable parameter of the table for
\* its type, security and unknown types included, and never fails.
C4_DefaultsTable ==
    ret.op = "addDevice" =>
        /\ devices # <<>>
        /\ devices[Len(devices)] = ret.device
        /\ ret.device.type = ret.type
        /\ << ret.device.adjustableParam.name, ret.device.adjustableParam.value,
              ret.device.adjustableParam.min, ret.device.adjustableParam.max >>
               = ParamTable(ret.type)

\* a thermostat has just been added
C4_Witness ==
    /\ ret.op = "addDevice"
    /\ ret.type = "thermostat"
    /\ ret.device.adjustableParam.value = 22

\* C5: no two devices of the registry share an id, and no id is assigned
\* twice, removed devices included.
C5_UniqueIds ==
    /\ \A i, j \in 1..Len(devices) : i # j => devices[i].id # devices[j].id
    /\ \A i, j \in 1..Len(created) : i # j => created[i] # created[j]

\* C6: removeDevice(id) with an id of the registry returns true, shrinks the
\* collection by one, keeps the order of the others, and getDevice(id) then
\* reports not-found.
C6_RemovePresent ==
    [][ (/\ ret'.op = "removeDevice"
         /\ \E k \in 1..Len(devices) : devices[k].id = ret'.id)
        => /\ ret'.result = TRUE
           /\ Len(devices') = Len(devices) - 1
           /\ \E k \in 1..Len(devices) :
                 /\ devices[k].id = ret'.id
                 /\ devices' = Without(devices, k)
           /\ getDevice(devices', ret'.id) = Undefined ]_vars

\* C7: removeDevice(id) with an id of no device returns false and leaves the
\* collection and the activity log as they were.
C7_RemoveAbsent ==
    [][ (/\ ret'.op = "removeDevice"
         /\ \A k \in 1..Len(devices) : devices[k].id # ret'.id)
        => /\ ret'.result = FALSE
           /\ devices' = devices
           /\ log' = log ]_vars

\* a removal has just failed on a registry that holds devices
C7_Witness ==
    /\ ret.op = "removeDevice"
    /\ ret.result = FALSE
    /\ Len(devices) >= 2

\* what a step leaves of the devices' connectivity: the connectivity of every
\* device that was there and still is
ConnectivityKept ==
    CASE ret'.op = "addDevice" ->
            /\ Len(devices') = Len(devices) + 1
            /\ SubSeq(Connectivity(devices'), 1, Len(devices)) = Connectivity(devices)
            /\ devices'[Len(devices')].connectivity = ret'.connectivity
      [] ret'.op = "removeDevice" /\ ret'.result ->
            \E k \in 1..Len(devices) :
                Connectivity(devices') = Without(Connectivity(devices), k)
      [] OTHER -> Connectivity(devices') = Connectivity(devices)

\* C8 as stated: no operation of the device or the registry changes the
\* connectivity of an existing device.
C8_NoOperationChangesConnectivity == [][ConnectivityKept]_vars

\* C8 amended: setConnectivity is the one operation that changes the
\* connectivity of an existing device; addDevice sets the value passed in, and
\* togglePower, updateAdjustable and removeDevice leave every device's
\* connectivity as it is.
C8_OnlySetConnectivityChanges ==
    [][ ret'.op # "setConnectivity" => ConnectivityKept ]_vars

\* an offline device has just been asked to toggle, and is offline still
C8_Witness ==
    /\ ret.op = "togglePower"
    /\ devices[ret.index].connectivity = "offline"

\* C9: after N logActivity calls the log holds the min(N, 50) most recent
\* entries, newest first.
C9_LogCap ==
    /\ Len(log) = Min(Len(logged), LogCap)
    /\ \A i \in 1..Len(log) : log[i] = logged[Len(logged) + 1 - i]

\* more entries were logged than the log keeps
C9_Witness == Len(logged) > LogCap /\ Len(log) = LogCap

\* C10: togglePower() on an online device flips powerState and succeeds with
\* a message naming the new state, "ON" exactly when powerState is then true.
C10_ToggleFlips ==
    [][ (/\ ret'.op = "togglePower"
         /\ Target.connectivity = "online")
        => /\ TargetAfter.powerState = ~Target.powerState
           /\ ret'.success
           /\ ret'.message = << "Device turned",
                                IF TargetAfter.powerState THEN "ON" ELSE "OFF" >> ]_vars

\* a device has just been turned off again
C10_Witness ==
    /\ ret.op = "togglePower"
    /\ ret.success
    /\ devices[ret.index].powerState = FALSE
    /\ ret.message = <<"Device turned", "OFF">>

\* C11: two togglePower() calls in a row on an online device leave it with the
\* powerState it had before the first, whichever that was.
C11_ToggleTwice ==
    [][ (/\ ret.op = "togglePower"
         /\ ret'.op = "togglePower"
         /\ ret'.index = ret.index
         /\ ret.success
         /\ Target.connectivity = "online")
        => TargetAfter.powerState = ret.before ]_vars

\* a device that had been turned on has just been toggled again and is off
C11_Witness ==
    /\ ret.op = "togglePower"
    /\ ret.success
    /\ ret.before = TRUE
    /\ devices[ret.index].powerState = FALSE

\* C12: addDevice grows the collection by one, puts the new device last, keeps
\* every earlier device in its place and state, and returns the new device,
\* which is off and has the connectivity passed in.
C12_AddAppends ==
    [][ ret'.op = "addDevice"
        => /\ Len(devices') = Len(devices) + 1
           /\ SubSeq(devices', 1, Len(devices)) = devices
           /\ devices'[Len(devices')] = ret'.device
           /\ ret'.device.powerState = FALSE
           /\ ret'.device.connectivity = ret'.connectivity
           /\ ret'.device.name = ret'.name
           /\ ret'.device.type = ret'.type ]_vars

\* an offline device has just been added behind a device that is on
C12_Witness ==
    /\ ret.op = "addDevice"
    /\ ret.connectivity = "offline"
    /\ Len(devices) >= 2
    /\ devices[1].powerState
    /\ devices[Len(devices)] = ret.device

\* C15 as stated: a device has the adjustable capability exactly when its type
\* is not security; light, fan, ac, thermostat and other have it.
C15_AllButSecurity ==
    \A i \in 1..Len(devices) :
        devices[i].hasAdjustable <=> devices[i].type # "security"

\* C15 amended: a device has the adjustable capability exactly when its type
\* is light, fan, ac or thermostat; a device of type other has it no more than
\* one of type security, and every device, those two included, carries an
\* adjustable parameter that updateAdjustable writes.
C15_AdjustableTypes ==
    [][ /\ \A i \in 1..Len(devices') :
              /\ devices'[i].hasAdjustable
                     <=> devices'[i].type \in {"light", "fan", "ac", "thermostat"}
              /\ DOMAIN devices'[i].adjustableParam = {"name", "value", "min", "max"}
        /\ (/\ ret'.op = "updateAdjustable"
            /\ Target.connectivity = "online"
            /\ ~Target.hasAdjustable)
           => TargetAfter.adjustableParam.value = Clamp(ret'.value, 0, 100) ]_vars

\* a device of type other, without the capability, has had its Level set
C15_Witness ==
    /\ ret.op = "updateAdjustable"
    /\ ret.success
    /\ devices[ret.index].type = "other"
    /\ ~devices[ret.index].hasAdjustable
    /\ devices[ret.index].adjustableParam.value = 20

\* C17: getStatus(), getDevice(id) and getAllDevices() leave the registry, every
\* device in it, the activity log and the page as they were; getStatus reports
\* the name, type and connectivity the device has and power "ON" exactly when
\* its powerState is true.
C17_ReadsChangeNothing ==
    [][ ret'.op \in {"getStatus", "getDevice", "getAllDevices"}
        => /\ devices' = devices
           /\ log' = log
           /\ page' = page
           /\ ret'.op = "getStatus"
              => /\ ret'.status.name = Target.name
                 /\ ret'.status.type = Target.type
                 /\ ret'.status.connectivity = Target.connectivity
                 /\ ret'.status.power \in {"ON", "OFF"}
                 /\ ret'.status.power = "ON" <=> Target.powerState
           /\ ret'.op = "getAllDevices" => ret'.devices = devices ]_vars

\* getStatus has just reported a powered device
C17_Witness ==
    /\ ret.op = "getStatus"
    /\ ret.status.power = "ON"
    /\ devices[ret.index].powerState
    /\ log # <<>>

\* the devices whose id reads as the text
Reading(ds, text) == {k \in 1..Len(ds) : IdToString(ds[k].id) = text}

\* C16: getDevice and removeDevice given the text of a device's id find and
\* remove exactly that device; given a text that normalizes to no stored id
\* they report not-found (no device, respectively false) and change nothing.
C16_TextIds ==
    [][ (ret'.op \in {"getDevice", "removeDevice"} /\ "text" \in DOMAIN ret')
        => /\ \A k \in Reading(devices, ret'.text) :
                 /\ ret'.index = k
                 /\ ret'.op = "getDevice" => ret'.device = devices[k]
                 /\ ret'.op = "removeDevice"
                    => ret'.result = TRUE /\ devices' = Without(devices, k)
           /\ (\A k \in 1..Len(devices) : devices[k].id # parseFloat(ret'.text))
              => /\ ret'.op = "getDevice" => ret'.device = Undefined
                 /\ ret'.op = "removeDevice" => ret'.result = FALSE
                 /\ devices' = devices
                 /\ log' = log ]_vars

\* C20: togglePower() and updateAdjustable(v) on one device leave every other
\* device of the registry, its adjustable parameter included, and the
\* membership and order of the registry as they were.
C20_PerDevice ==
    [][ ret'.op \in {"togglePower", "updateAdjustable"}
        => /\ Len(devices') = Len(devices)
           /\ \A j \in 1..Len(devices) : j # ret'.index => devices'[j] = devices[j] ]_vars

\* of two online devices of one type, one has just been given a value the
\* other does not have
C20_Witness ==
    /\ ret.op = "updateAdjustable"
    /\ ret.success
    /\ Len(devices) = 2
    /\ devices[1].type = devices[2].type
    /\ devices[1].connectivity = "online"
    /\ devices[2].connectivity = "online"
    /\ devices[1].adjustableParam.value # devices[2].adjustableParam.value

\* the handler that has just run changed the registry or a device as asked
Succeeded ==
    \/ ret'.op = "submit" /\ ret'.added
    \/ ret'.op = "deleteDevice" /\ ret'.removed
    \/ ret'.op \in {"toggleDevice", "updateAdjustableHandler"}
           /\ ret'.index # 0 /\ ret'.success

\* the step put exactly n entries into the log, the newest first, in front of
\* those that were there
NewInFront(n) ==
    /\ Len(logged') = Len(logged) + n
    /\ Len(log') = Min(Len(log) + n, LogCap)
    /\ \A i \in 1..Len(log') :
          log'[i] = IF i <= n THEN logged'[Len(logged') + 1 - i] ELSE log[i - n]

\* C13: every addDevice, successful removeDevice, successful power toggle and
\* successful adjustable update made through the page puts exactly one new
\* entry at the front of the activity log (page load, which adds the sample
\* devices, one per device and one for the system), and no step changes the
\* registry or a device without logging.
C13_MutationsLogged ==
    [][ /\ Succeeded => NewInFront(1)
        /\ ret'.op = "DOMContentLoaded"
           => NewInFront(Len(devices') - Len(devices) + 1)
        /\ devices' # devices => Len(logged') > Len(logged) ]_vars

\* a slider has just been moved, after a toggle, and both are in the log
C13_Witness ==
    /\ ret.op = "updateAdjustableHandler"
    /\ ret.success
    /\ Len(log) = 7
    /\ log[1].message[1] = "adjusted"
    /\ log[2].message[1] = "green"

\* C14: every toggle and every adjustable update that an offline device
\* rejects puts a failed-action entry into the activity log.
C14_RejectedLogged ==
    [][ (/\ ret'.op \in {"toggleDevice", "updateAdjustableHandler"}
         /\ ret'.index # 0
         /\ ~ret'.success)
        => /\ NewInFront(1)
           /\ log'[1].message[1] = "failed" ]_vars

\* C18: right after page load the registry holds Living Room Light (light,
\* online), Bedroom Fan (fan, online), Main AC (ac, online) and Main
\* Thermostat (thermostat, offline) in this order, all off and at their type's
\* default value, and the log holds five entries, the newest being the
\* system-initialized one.
C18_PageLoaded ==
    ret.op = "DOMContentLoaded" =>
        /\ [k \in 1..Len(devices) |->
               <<devices[k].name, devices[k].type, devices[k].connectivity>>]
           = << <<"Living Room Light", "light", "online">>,
                <<"Bedroom Fan", "fan", "online">>,
                <<"Main AC", "ac", "online">>,
                <<"Main Thermostat", "thermostat", "offline">> >>
        /\ \A k \in 1..Len(devices) :
              /\ ~devices[k].powerState
              /\ devices[k].adjustableParam.value = ParamTable(devices[k].type)[2]
        /\ Len(log) = 5
        /\ log[1].message = <<"System initialized successfully">>

\* the page has just been loaded, the thermostat's card shows it offline
C18_Witness ==
    /\ ret.op = "DOMContentLoaded"
    /\ Len(grid) = 4
    /\ grid[4].status = "OFFLINE"
    /\ log[5].message[3] = "Living Room Light"

\* C19: the slider of a card is disabled while its device is off and absent
\* while it is offline, and no step of a user changes the adjustable value of
\* a device that is off.
C19_ValueOnlyWhenOn ==
    [][ /\ Len(grid') = Len(devices')
        /\ \A k \in 1..Len(devices') :
              /\ devices'[k].connectivity = "offline" => grid'[k].slider = "none"
              /\ ~devices'[k].powerState => grid'[k].slider # "enabled"
        /\ \A i \in 1..Len(devices) :
              (/\ Len(devices') = Len(devices)
               /\ devices'[i].adjustableParam.value # devices[i].adjustableParam.value)
              => devices[i].powerState ]_vars

\* a user has just moved the slider of a device that is on, next to a device
\* that is off and whose slider is disabled
C19_Witness ==
    /\ ret.op = "updateAdjustableHandler"
    /\ ret.success
    /\ devices[ret.index].powerState
    /\ devices[ret.index].adjustableParam.value
           # DefaultParam(devices[ret.index].type).value
    /\ \E k \in 1..Len(devices) :
          /\ ~devices[k].powerState
          /\ grid[k].slider = "disabled"

\* C21: togglePower() leaves the adjustableParam of its device, value, min and
\* max, as it was, turning off included, and updateAdjustable(v) leaves its
\* powerState, min and max as they were.
C21_SettingsIndependent ==
    [][ /\ ret'.op = "togglePower"
           => TargetAfter.adjustableParam = Target.adjustableParam
        /\ ret'.op = "updateAdjustable"
           => /\ TargetAfter.powerState = Target.powerState
              /\ TargetAfter.adjustableParam.min = Target.adjustableParam.min
              /\ TargetAfter.adjustableParam.max = Target.adjustableParam.max ]_vars

\* a device whose value had been changed has just been turned off, and has
\* the changed value still
C21_Witness ==
    /\ ret.op = "togglePower"
    /\ ret.success
    /\ ret.before = TRUE
    /\ ~devices[ret.index].powerState
    /\ devices[ret.index].adjustableParam.value
           # DefaultParam(devices[ret.index].type).value

\* C22: after the updateAdjustable handler has succeeded, the text shown in
\* the card of the device is its stored adjustableParam.value with the unit,
\* whatever value was requested.
C22_ShownIsStored ==
    [][ (/\ ret'.op = "updateAdjustableHandler"
         /\ ret'.index # 0
         /\ ret'.success
         /\ ~ret'.threw)
        => grid'[ret'.index].shown
               = IntToString(devices'[ret'.index].adjustableParam.value)
                     \o Unit(devices'[ret'.index].adjustableParam) ]_vars

====
